---------------------------- MODULE Spec2Model ----------------------------
(***************************************************************************)
(* Model of examples/sanitizer_examples.cpp: the catalog of sixteen        *)
(* demonstration routines and the entry point main().                       *)
(*                                                                         *)
(* The calls in main() are chosen by editing the source (each call         *)
(* statement is commented out as shipped), so the list of enabled call     *)
(* statements is the program's only input; it is fixed in Init and never   *)
(* changes.  A routine's position is the source line of its next           *)
(* statement.  Every operation a routine performs is appended to `ops`     *)
(* together with the state of its target just before the operation.        *)
(* An operation with undefined behaviour either ends the process (the      *)
(* sanitizer's abort, a trap, a signal) or continues with one of the       *)
(* values the build may produce.                                           *)
(***************************************************************************)
EXTENDS Integers, Sequences, FiniteSets, TLC

VARIABLES
    calls,           \* main(): the enabled call statements, in order
    pc,              \* main(): "L172", "L173", "calls", "L202", "done", "crashed"
    idx,             \* main(): index in `calls` of the next call statement
    out,             \* what was inserted into std::cout: <<text, hasValue, value>>
    exitStatus,      \* the value returned by main(); NoExit until it returns
    invoked,         \* the routines entered so far, in order
    cur,             \* the routine being executed, or "none"
    rpc,             \* source line of the routine's next statement
    ops,             \* the operations performed by the current routine
    frame,           \* the routine's stack frame, one cell per element
    ptr,             \* the routine's local pointer (heap handle, 0 = nullptr)
    heap,            \* the allocations made so far, indexed by handle
    shared_counter,  \* line 47
    shared_vec,      \* line 65: [size, buf]
    entry_counter,   \* history: shared_counter when the routine was entered
    stale,           \* history: a task stored a count computed from a
                     \*          superseded load
    tpc,             \* per task: "none", "read", "write", "done"
    ti,              \* per task: the loop variable i
    tmp              \* per task: the value loaded by the pending store

vMain    == <<calls, idx, exitStatus, invoked>>
vShared  == <<shared_counter, shared_vec, entry_counter>>
vThreads == <<tpc, ti, tmp, stale>>
vars     == <<calls, pc, idx, out, exitStatus, invoked, cur, rpc, ops, frame,
              ptr, heap, shared_counter, shared_vec, entry_counter, stale,
              tpc, ti, tmp>>

----------------------------------------------------------------------------
(* Bounds of the model *)

\* number of call statements enabled in main()
MaxCalls == 2

\* iterations of the loop of tsan_data_race_increment (100000 in the source)
Iterations == 3

\* iterations of the loop of tsan_vector_race (1000 in the source)
VecIterations == 2

\* cells of stack modelled above the base of a routine's frame
FrameCells == 16

----------------------------------------------------------------------------
(* Program constants *)

IntBits == 32

INT_MAX == 2147483647

\* the object representation of 3.14f (IEEE-754 binary32, 0x4048F5C3)
FloatBits == 1078523331

\* alignment requirement of int
IntAlign == 4

NoExit == -1

Tasks == {1, 2}

\* the call statements of main(), lines 178-199, in source order
Catalog ==
    << "asan_buffer_overflow", "asan_use_after_free", "asan_double_free",
       "asan_memory_leak",
       "tsan_data_race_example", "tsan_vector_race_example",
       "msan_uninitialized_read", "msan_uninitialized_array",
       "msan_uninitialized_struct",
       "ubsan_signed_overflow", "ubsan_null_pointer", "ubsan_division_by_zero",
       "ubsan_shift_out_of_bounds", "ubsan_array_bounds",
       "ubsan_misaligned_pointer", "ubsan_invalid_cast" >>

Routines == { Catalog[i] : i \in DOMAIN Catalog }

Position(r) == CHOOSE i \in DOMAIN Catalog : Catalog[i] = r

\* the values an indeterminate int may turn out to hold
Indeterminate == {-1, 0, 1}

\* line of the first statement of each routine
FirstLine(r) ==
    CASE r = "asan_buffer_overflow"      -> 17
      [] r = "asan_use_after_free"       -> 23
      [] r = "asan_double_free"          -> 31
      [] r = "asan_memory_leak"          -> 38
      [] r = "tsan_data_race_example"    -> 57
      [] r = "tsan_vector_race_example"  -> 74
      [] r = "msan_uninitialized_read"   -> 87
      [] r = "msan_uninitialized_array"  -> 96
      [] r = "msan_uninitialized_struct" -> 108
      [] r = "ubsan_signed_overflow"     -> 117
      [] r = "ubsan_null_pointer"        -> 124
      [] r = "ubsan_division_by_zero"    -> 130
      [] r = "ubsan_shift_out_of_bounds" -> 138
      [] r = "ubsan_array_bounds"        -> 146
      [] r = "ubsan_misaligned_pointer"  -> 154
      [] r = "ubsan_invalid_cast"        -> 161

\* line of the closing brace of each routine
LastLine(r) ==
    CASE r = "asan_buffer_overflow"      -> 19
      [] r = "asan_use_after_free"       -> 27
      [] r = "asan_double_free"          -> 34
      [] r = "asan_memory_leak"          -> 41
      [] r = "tsan_data_race_example"    -> 62
      [] r = "tsan_vector_race_example"  -> 78
      [] r = "msan_uninitialized_read"   -> 90
      [] r = "msan_uninitialized_array"  -> 97
      [] r = "msan_uninitialized_struct" -> 109
      [] r = "ubsan_signed_overflow"     -> 120
      [] r = "ubsan_null_pointer"        -> 126
      [] r = "ubsan_division_by_zero"    -> 134
      [] r = "ubsan_shift_out_of_bounds" -> 142
      [] r = "ubsan_array_bounds"        -> 150
      [] r = "ubsan_misaligned_pointer"  -> 157
      [] r = "ubsan_invalid_cast"        -> 165
      [] OTHER                           -> 0

----------------------------------------------------------------------------
(* Helpers *)

RECURSIVE SeqsUpTo(_, _)
SeqsUpTo(S, n) ==
    IF n = 0 THEN { <<>> }
    ELSE LET shorter == SeqsUpTo(S, n - 1)
         IN  shorter \cup { Append(s, x) : s \in shorter, x \in S }

\* the ways main() can be edited: up to MaxCalls call statements enabled,
\* kept in the order of lines 178-199; a call statement may be repeated
Selections ==
    { s \in SeqsUpTo(Routines, MaxCalls) :
        \A i \in 1 .. Len(s) - 1 : Position(s[i]) <= Position(s[i + 1]) }

Text(s)     == <<s, FALSE, 0>>
Shown(s, v) == <<s, TRUE, v>>

Banner1 == Text("Sanitizer Examples\n")
Banner2 == Text("==================\n\n")
Trailer == Text("No examples executed. Uncomment examples in main() to test.\n")

\* a stack cell: never written, or written with a value
Unwritten  == [w |-> FALSE, v |-> 0]
Cell(v)    == [w |-> TRUE, v |-> v]
\* variant: every local is declared with a zero initializer
ZeroedFrame == [a \in 0 .. FrameCells - 1 |-> Cell(0)]
FreshFrame == [a \in 0 .. FrameCells - 1 |-> Unwritten]

\* an operation: kind, object, first operand (index, handle, value),
\* second operand (length, count, divisor), state of the target before it
Op(k, obj, i, n, st) == [k |-> k, obj |-> obj, i |-> i, n |-> n, st |-> st]

\* state of element `index` of an object of `len` cells at `base`
CellState(base, len, index) ==
    IF index < 0 \/ index >= len THEN "outside"
    ELSE IF frame[base + index].w THEN "written" ELSE "unwritten"

\* what a load of the cell at address a may yield
Loadable(a) ==
    IF a \in DOMAIN frame /\ frame[a].w THEN { frame[a].v } ELSE Indeterminate

\* the operation ends the process
Fault(o) ==
    /\ pc' = "crashed"
    /\ ops' = Append(ops, o)
    /\ UNCHANGED <<out, cur, rpc, frame, ptr, heap, vMain, vShared, vThreads>>

\* the operation is performed and the routine moves to line `next`
Do(o, next) ==
    /\ ops' = Append(ops, o)
    /\ rpc' = next
    /\ UNCHANGED <<pc, cur, vMain, vShared, vThreads>>

At(r, line) == pc = "calls" /\ cur = r /\ rpc = line

----------------------------------------------------------------------------
(* Initial state *)

Init ==
    /\ calls \in Selections
    /\ pc = "L172"
    /\ idx = 1
    /\ out = <<>>
    /\ exitStatus = NoExit
    /\ invoked = <<>>
    /\ cur = "none"
    /\ rpc = 0
    /\ ops = <<>>
    /\ frame = FreshFrame
    /\ ptr = 0
    /\ heap = <<>>
    /\ shared_counter = 0
    /\ shared_vec = [size |-> 0, buf |-> <<>>]
    /\ entry_counter = 0
    /\ stale = FALSE
    /\ tpc = [t \in Tasks |-> "none"]
    /\ ti = [t \in Tasks |-> 0]
    /\ tmp = [t \in Tasks |-> 0]

----------------------------------------------------------------------------
(* main(), lines 171-203 *)

Main172 ==
    /\ pc = "L172"
    /\ out' = Append(out, Banner1)
    /\ pc' = "L173"
    /\ UNCHANGED <<cur, rpc, ops, frame, ptr, heap, vMain, vShared, vThreads>>

Main173 ==
    /\ pc = "L173"
    /\ out' = Append(out, Banner2)
    /\ pc' = "calls"
    /\ UNCHANGED <<cur, rpc, ops, frame, ptr, heap, vMain, vShared, vThreads>>

\* variant: entering a routine resets the shared counter and sequence
MainCall_Reset ==
    /\ pc = "calls" /\ cur = "none" /\ idx <= Len(calls)
    /\ cur' = calls[idx]
    /\ rpc' = FirstLine(calls[idx])
    /\ invoked' = Append(invoked, calls[idx])
    /\ ops' = <<>>
    /\ frame' = [a \in DOMAIN frame |-> Unwritten]
    /\ ptr' = 0
    /\ shared_counter' = 0
    /\ shared_vec' = [size |-> 0, buf |-> <<>>]
    /\ entry_counter' = 0
    /\ stale' = FALSE
    /\ tpc' = [t \in Tasks |-> "none"]
    /\ ti' = [t \in Tasks |-> 0]
    /\ tmp' = [t \in Tasks |-> 0]
    /\ UNCHANGED <<calls, pc, idx, out, exitStatus, heap>>

\* an enabled call statement of lines 178-199: enter the routine
MainCall ==
    /\ pc = "calls" /\ cur = "none" /\ idx <= Len(calls)
    /\ cur' = calls[idx]
    /\ rpc' = FirstLine(calls[idx])
    /\ invoked' = Append(invoked, calls[idx])
    /\ ops' = <<>>
    /\ frame' = FreshFrame
    /\ ptr' = 0
    /\ entry_counter' = shared_counter
    /\ stale' = FALSE
    /\ tpc' = [t \in Tasks |-> "none"]
    /\ ti' = [t \in Tasks |-> 0]
    /\ tmp' = [t \in Tasks |-> 0]
    /\ UNCHANGED <<calls, pc, idx, out, exitStatus, heap, shared_counter,
                   shared_vec>>

\* the closing brace of a routine: back to main()
Return ==
    /\ pc = "calls" /\ cur # "none" /\ rpc = LastLine(cur)
    /\ cur' = "none"
    /\ rpc' = 0
    /\ idx' = idx + 1
    /\ UNCHANGED <<calls, pc, out, exitStatus, invoked, ops, frame, ptr, heap,
                   vShared, vThreads>>

\* variant: the trailer is not printed
Main201_Silent ==
    /\ pc = "calls" /\ cur = "none" /\ idx > Len(calls)
    /\ pc' = "L202"
    /\ UNCHANGED <<out, cur, rpc, ops, frame, ptr, heap, vMain, vShared,
                   vThreads>>

Main201 ==
    /\ pc = "calls" /\ cur = "none" /\ idx > Len(calls)
    /\ out' = Append(out, Trailer)
    /\ pc' = "L202"
    /\ UNCHANGED <<cur, rpc, ops, frame, ptr, heap, vMain, vShared, vThreads>>

\* the status main() returns
ReturnValue == 0

\* variant: main() returns a failure status
Main202_Failure ==
    /\ pc = "L202"
    /\ exitStatus' = 1
    /\ pc' = "done"
    /\ UNCHANGED <<calls, idx, invoked, out, cur, rpc, ops, frame, ptr, heap,
                   vShared, vThreads>>

Main202 ==
    /\ pc = "L202"
    /\ exitStatus' = ReturnValue
    /\ pc' = "done"
    /\ UNCHANGED <<calls, idx, invoked, out, cur, rpc, ops, frame, ptr, heap,
                   vShared, vThreads>>

----------------------------------------------------------------------------
(* AddressSanitizer examples, lines 15-41 *)

\* number of elements of `int arr[10]` (line 16) and the index written (line 17)
OverflowLen == 10

OverflowIndex == 15

\* variant: the element address is computed one short
StoreOffByOne(obj, base, len, index, val, next) ==
    LET st == CellState(base, len, index)
        o  == Op("store", obj, index, len, st)
    IN  \/ /\ st = "outside"
           /\ Fault(o)
        \/ /\ Do(o, next)
           /\ frame' = IF base + index - 1 \in DOMAIN frame
                       THEN [frame EXCEPT ![base + index - 1] = Cell(val)]
                       ELSE frame
           /\ UNCHANGED <<out, ptr, heap>>

\* a store to element `index` of the local object `obj` (len cells at base)
Store(obj, base, len, index, val, next) ==
    LET st == CellState(base, len, index)
        o  == Op("store", obj, index, len, st)
    IN  \/ /\ st = "outside"
           /\ Fault(o)
        \/ /\ Do(o, next)
           /\ frame' = IF base + index \in DOMAIN frame
                       THEN [frame EXCEPT ![base + index] = Cell(val)]
                       ELSE frame
           /\ UNCHANGED <<out, ptr, heap>>

\* `std::cout << text << obj[index] << std::endl`
LoadPrint(obj, base, len, index, text, next) ==
    LET st == CellState(base, len, index)
        o  == Op("load", obj, index, len, st)
    IN  \/ /\ st \in {"outside", "unwritten"}
           /\ Fault(o)
        \/ /\ Do(o, next)
           /\ \E v \in Loadable(base + index) : out' = Append(out, Shown(text, v))
           /\ UNCHANGED <<frame, ptr, heap>>

asan_buffer_overflow ==
    \/ /\ At("asan_buffer_overflow", 17)
       /\ Store("arr", 0, OverflowLen, OverflowIndex, 42, 18)
    \/ /\ At("asan_buffer_overflow", 18)
       /\ LoadPrint("arr", 0, OverflowLen, OverflowIndex, "Buffer overflow: ", 19)

\* state of the allocation a pointer refers to
Referent(p) ==
    IF p = 0 THEN "null"
    ELSE IF p \in DOMAIN heap THEN heap[p].st ELSE "wild"

\* `ptr = new int...`: a fresh allocation of n ints, the first holding val
New(n, val, next) ==
    LET h == Len(heap) + 1
    IN  /\ Do(Op("alloc", "heap", h, n, "none"), next)
        /\ heap' = Append(heap, [st |-> "live", v |-> val, n |-> n])
        /\ ptr' = h
        /\ UNCHANGED <<out, frame>>

\* variant: the pointer is set to nullptr once its referent is released
DeleteAndClear(next) ==
    LET st == Referent(ptr)
        o  == Op("free", "heap", ptr, 1, st)
    IN  \/ /\ st \notin {"live", "null"}
           /\ Fault(o)
        \/ /\ Do(o, next)
           /\ heap' = IF ptr \in DOMAIN heap
                      THEN [heap EXCEPT ![ptr].st = "freed"]
                      ELSE heap
           /\ ptr' = 0
           /\ UNCHANGED <<out, frame>>

\* `delete ptr`; deleting a null pointer does nothing
Delete(next) ==
    LET st == Referent(ptr)
        o  == Op("free", "heap", ptr, 1, st)
    IN  \/ /\ st \notin {"live", "null"}
           /\ Fault(o)
        \/ /\ Do(o, next)
           /\ heap' = IF ptr \in DOMAIN heap
                      THEN [heap EXCEPT ![ptr].st = "freed"]
                      ELSE heap
           /\ UNCHANGED <<out, frame, ptr>>

\* `*ptr = val` through the int pointer
StorePtr(val, next) ==
    LET st == Referent(ptr)
        o  == Op("store", "heap", ptr, 1, st)
    IN  \/ /\ st # "live"
           /\ Fault(o)
        \/ /\ Do(o, next)
           /\ heap' = IF ptr \in DOMAIN heap
                      THEN [heap EXCEPT ![ptr].v = val]
                      ELSE heap
           /\ UNCHANGED <<out, frame, ptr>>

\* `std::cout << text << *ptr << std::endl`
LoadPtrPrint(text, next) ==
    LET st == Referent(ptr)
        o  == Op("load", "heap", ptr, 1, st)
        vs == IF st = "live" THEN { heap[ptr].v }
              ELSE IF st = "freed" THEN { heap[ptr].v } \cup Indeterminate
              ELSE Indeterminate
    IN  \/ /\ st # "live"
           /\ Fault(o)
        \/ /\ Do(o, next)
           /\ \E v \in vs : out' = Append(out, Shown(text, v))
           /\ UNCHANGED <<frame, ptr, heap>>

asan_use_after_free ==
    \/ /\ At("asan_use_after_free", 23)
       /\ New(1, 42, 24)
    \/ /\ At("asan_use_after_free", 24)
       /\ Delete(25)
    \/ /\ At("asan_use_after_free", 25)
       /\ StorePtr(100, 26)
    \/ /\ At("asan_use_after_free", 26)
       /\ LoadPtrPrint("Use after free: ", 27)

\* line 33: the second `delete ptr`
DoubleFreeSecond == Delete(34)

asan_double_free ==
    \/ /\ At("asan_double_free", 31)
       /\ New(1, 42, 32)
    \/ /\ At("asan_double_free", 32)
       /\ Delete(33)
    \/ /\ At("asan_double_free", 33)
       /\ DoubleFreeSecond

asan_memory_leak ==
    /\ At("asan_memory_leak", 38)
    /\ New(1000, 0, 41)

----------------------------------------------------------------------------
(* ThreadSanitizer examples, lines 47-78 *)

\* `std::thread t(body)`: task t starts at the head of the loop of its body
Spawn(t, obj, bound, next) ==
    /\ ops' = Append(ops, Op("spawn", obj, t, bound, "none"))
    /\ rpc' = next
    /\ tpc' = [tpc EXCEPT ![t] = IF 0 < bound THEN "read" ELSE "done"]
    /\ UNCHANGED <<pc, cur, out, frame, ptr, heap, vMain, vShared, ti, tmp,
                   stale>>

\* `t.join()`: the caller blocks until task t has completed
Join(t, obj, next) ==
    /\ tpc[t] = "done"
    /\ ops' = Append(ops, Op("join", obj, t, 0, "none"))
    /\ rpc' = next
    /\ UNCHANGED <<pc, cur, out, frame, ptr, heap, vMain, vShared, vThreads>>

\* variant: the second join names t1 again, so t2 is never waited for
JoinFirstAgain(obj, next) == Join(1, obj, next)

\* line 60: `t2.join()`
JoinSecond(obj, next) == Join(2, obj, next)

\* line 61: the caller reads shared_counter and prints it
PrintCounter ==
    /\ ops' = Append(ops, Op("load", "shared_counter", shared_counter, 0, "none"))
    /\ rpc' = 62
    /\ out' = Append(out, Shown("Counter value: ", shared_counter))
    /\ UNCHANGED <<pc, cur, frame, ptr, heap, vMain, vShared, vThreads>>

tsan_data_race_example ==
    \/ /\ At("tsan_data_race_example", 57)
       /\ Spawn(1, "shared_counter", Iterations, 58)
    \/ /\ At("tsan_data_race_example", 58)
       /\ Spawn(2, "shared_counter", Iterations, 59)
    \/ /\ At("tsan_data_race_example", 59)
       /\ Join(1, "shared_counter", 60)
    \/ /\ At("tsan_data_race_example", 60)
       /\ JoinSecond("shared_counter", 61)
    \/ /\ At("tsan_data_race_example", 61)
       /\ PrintCounter

\* variant: the loaded value is stored back unchanged
NotIncremented(v) == v

\* the value stored by `shared_counter++` after loading v
Incremented(v) == v + 1

\* variant: the loop runs once more than its bound
LoopContinuesInclusive(i, bound) == i <= bound

\* the loop of lines 51-53 continues while i < bound
LoopContinues(i, bound) == i < bound

\* the body of a task of tsan_data_race_example, lines 50-54:
\* `shared_counter++` is a load followed by a store of the loaded value + 1
tsan_data_race_increment(t) ==
    /\ pc = "calls" /\ cur = "tsan_data_race_example"
    /\ \/ /\ tpc[t] = "read"
          /\ tmp' = [tmp EXCEPT ![t] = shared_counter]
          /\ tpc' = [tpc EXCEPT ![t] = "write"]
          /\ UNCHANGED <<shared_counter, ti, stale>>
       \/ /\ tpc[t] = "write"
          /\ shared_counter' = Incremented(tmp[t])
          /\ stale' = (stale \/ shared_counter # tmp[t])
          /\ ti' = [ti EXCEPT ![t] = ti[t] + 1]
          /\ tmp' = [tmp EXCEPT ![t] = 0]
          /\ tpc' = [tpc EXCEPT ![t] =
                        IF LoopContinues(ti[t] + 1, Iterations)
                        THEN "read" ELSE "done"]
    /\ UNCHANGED <<pc, out, cur, rpc, ops, frame, ptr, heap, vMain, shared_vec,
                   entry_counter>>

tsan_vector_race_example ==
    \/ /\ At("tsan_vector_race_example", 74)
       /\ Spawn(1, "shared_vec", VecIterations, 75)
    \/ /\ At("tsan_vector_race_example", 75)
       /\ Spawn(2, "shared_vec", VecIterations, 76)
    \/ /\ At("tsan_vector_race_example", 76)
       /\ Join(1, "shared_vec", 77)
    \/ /\ At("tsan_vector_race_example", 77)
       /\ JoinSecond("shared_vec", 78)

\* the buffer with slot k (at most one past its end) holding v
Put(buf, k, v) ==
    IF k \in DOMAIN buf THEN [buf EXCEPT ![k] = v] ELSE Append(buf, v)

\* the body of a task of tsan_vector_race_example, lines 67-71:
\* push_back loads the size, then stores the element and the new size;
\* two push_backs in progress at once may corrupt the buffer and end the
\* process
tsan_vector_race(t) ==
    /\ pc = "calls" /\ cur = "tsan_vector_race_example"
    /\ \/ /\ tpc[t] = "read"
          /\ tmp' = [tmp EXCEPT ![t] = shared_vec.size]
          /\ tpc' = [tpc EXCEPT ![t] = "write"]
          /\ UNCHANGED <<pc, shared_vec, ti, stale>>
       \/ /\ tpc[t] = "write"
          /\ shared_vec' = [size |-> tmp[t] + 1,
                            buf  |-> Put(shared_vec.buf, tmp[t] + 1, ti[t])]
          /\ stale' = (stale \/ shared_vec.size # tmp[t])
          /\ ti' = [ti EXCEPT ![t] = ti[t] + 1]
          /\ tmp' = [tmp EXCEPT ![t] = 0]
          /\ tpc' = [tpc EXCEPT ![t] =
                        IF LoopContinues(ti[t] + 1, VecIterations)
                        THEN "read" ELSE "done"]
          /\ pc' = pc
       \/ /\ tpc[t] = "write"
          /\ \E u \in Tasks \ {t} : tpc[u] = "write"
          /\ pc' = "crashed"
          /\ UNCHANGED <<shared_vec, tpc, ti, tmp, stale>>
    /\ UNCHANGED <<out, cur, rpc, ops, frame, ptr, heap, vMain, shared_counter,
                   entry_counter>>

----------------------------------------------------------------------------
(* MemorySanitizer examples, lines 85-109 *)

\* line 87: `if (x > 0)` loads x and branches on the value
BranchOnX ==
    LET st == CellState(0, 1, 0)
        o  == Op("load", "x", 0, 1, st)
    IN  \/ /\ st = "unwritten"
           /\ Fault(o)
        \/ /\ \E v \in Loadable(0) : Do(o, IF v > 0 THEN 88 ELSE 90)
           /\ UNCHANGED <<out, frame, ptr, heap>>

msan_uninitialized_read ==
    \/ /\ At("msan_uninitialized_read", 87)
       /\ BranchOnX
    \/ /\ At("msan_uninitialized_read", 88)
       /\ LoadPrint("x", 0, 1, 0, "Uninitialized read: ", 90)

msan_uninitialized_array ==
    /\ At("msan_uninitialized_array", 96)
    /\ LoadPrint("arr", 0, 10, 0, "Uninitialized array: ", 97)

\* MyStruct (lines 100-103): value in cell 0, name in the cells after it
msan_uninitialized_struct ==
    /\ At("msan_uninitialized_struct", 108)
    /\ LoadPrint("s.value", 0, 1, 0, "Uninitialized struct: ", 109)

----------------------------------------------------------------------------
(* UndefinedBehaviorSanitizer examples, lines 116-165 *)

\* an initializing store to the scalar in cell a
Assign(obj, a, val, next) ==
    /\ Do(Op("store", obj, 0, 1, CellState(a, 1, 0)), next)
    /\ frame' = [frame EXCEPT ![a] = Cell(val)]
    /\ UNCHANGED <<out, ptr, heap>>

\* `std::cout << text << scalar << std::endl` for the scalar in cell a
PrintScalar(obj, a, text, next) == LoadPrint(obj, a, 1, 0, text, next)

\* line 118: `x++` on the int in cell 0
IncrementX(next) ==
    LET x  == frame[0].v
        st == IF x = INT_MAX THEN "overflow" ELSE "ok"
        o  == Op("inc", "x", x, INT_MAX, st)
    IN  \/ /\ st = "overflow"
           /\ Fault(o)
        \/ /\ Do(o, next)
           /\ frame' = [frame EXCEPT ![0] =
                           Cell(IF x = INT_MAX THEN -INT_MAX - 1 ELSE x + 1)]
           /\ UNCHANGED <<out, ptr, heap>>

ubsan_signed_overflow ==
    \/ /\ At("ubsan_signed_overflow", 117)
       /\ Assign("x", 0, INT_MAX, 118)
    \/ /\ At("ubsan_signed_overflow", 118)
       /\ IncrementX(119)
    \/ /\ At("ubsan_signed_overflow", 119)
       /\ PrintScalar("x", 0, "Signed overflow: ", 120)

ubsan_null_pointer ==
    \/ /\ At("ubsan_null_pointer", 124)
       /\ Do(Op("store", "ptr", 0, 1, "none"), 125)
       /\ ptr' = 0
       /\ UNCHANGED <<out, frame, heap>>
    \/ /\ At("ubsan_null_pointer", 125)
       /\ StorePtr(42, 126)

\* line 132: `int result = x / y` on the ints in cells 0 and 1
Divide(next) ==
    LET x  == frame[0].v
        y  == frame[1].v
        st == IF y = 0 THEN "zero" ELSE "ok"
        o  == Op("div", "x", x, y, st)
        qs == IF y = 0 THEN Indeterminate
              ELSE { IF (x < 0) = (y < 0) THEN x \div y ELSE -((-x) \div y) }
    IN  \/ /\ st = "zero"
           /\ Fault(o)
        \/ /\ Do(o, next)
           /\ \E q \in qs : frame' = [frame EXCEPT ![2] = Cell(q)]
           /\ UNCHANGED <<out, ptr, heap>>

ubsan_division_by_zero ==
    \/ /\ At("ubsan_division_by_zero", 130)
       /\ Assign("x", 0, 10, 131)
    \/ /\ At("ubsan_division_by_zero", 131)
       /\ Assign("y", 1, 0, 132)
    \/ /\ At("ubsan_division_by_zero", 132)
       /\ Divide(133)
    \/ /\ At("ubsan_division_by_zero", 133)
       /\ PrintScalar("result", 2, "Division: ", 134)

\* line 140: `int result = x << shift` on the ints in cells 0 and 1; a count
\* outside 0 .. IntBits - 1 is taken modulo IntBits or shifts every bit out
ShiftLeft(next) ==
    LET x  == frame[0].v
        n  == frame[1].v
        st == IF n < 0 \/ n >= IntBits THEN "oversized" ELSE "ok"
        o  == Op("shl", "x", x, n, st)
        rs == IF st = "oversized" THEN { 0, x * 2 ^ (n % IntBits) }
              ELSE { x * 2 ^ n }
    IN  \/ /\ st = "oversized"
           /\ Fault(o)
        \/ /\ Do(o, next)
           /\ \E r \in rs : frame' = [frame EXCEPT ![2] = Cell(r)]
           /\ UNCHANGED <<out, ptr, heap>>

ubsan_shift_out_of_bounds ==
    \/ /\ At("ubsan_shift_out_of_bounds", 138)
       /\ Assign("x", 0, 1, 139)
    \/ /\ At("ubsan_shift_out_of_bounds", 139)
       /\ Assign("shift", 1, 100, 140)
    \/ /\ At("ubsan_shift_out_of_bounds", 140)
       /\ ShiftLeft(141)
    \/ /\ At("ubsan_shift_out_of_bounds", 141)
       /\ PrintScalar("result", 2, "Shift: ", 142)

\* number of elements of `int arr[5]` (line 146)
BoundsLen == 5

\* line 148: `int value = arr[index]`, arr in cells 0 .. 4, index in cell 5,
\* value in cell 6
LoadIndexed(next) ==
    LET index == frame[BoundsLen].v
        st    == CellState(0, BoundsLen, index)
        o     == Op("load", "arr", index, BoundsLen, st)
    IN  \/ /\ st = "outside"
           /\ Fault(o)
        \/ /\ Do(o, next)
           /\ \E v \in Loadable(index) :
                 frame' = [frame EXCEPT ![BoundsLen + 1] = Cell(v)]
           /\ UNCHANGED <<out, ptr, heap>>

ubsan_array_bounds ==
    \/ /\ At("ubsan_array_bounds", 146)
       /\ Do(Op("store", "arr", 0, BoundsLen, "unwritten"), 147)
       /\ frame' = [a \in DOMAIN frame |->
                       IF a < BoundsLen THEN Cell(a + 1) ELSE frame[a]]
       /\ UNCHANGED <<out, ptr, heap>>
    \/ /\ At("ubsan_array_bounds", 147)
       /\ Assign("index", BoundsLen, 10, 148)
    \/ /\ At("ubsan_array_bounds", 148)
       /\ LoadIndexed(149)
    \/ /\ At("ubsan_array_bounds", 149)
       /\ PrintScalar("value", BoundsLen + 1, "Array access: ", 150)

\* the characters of "123456789" and the terminating NUL (line 154)
DataChars == <<49, 50, 51, 52, 53, 54, 55, 56, 57, 0>>

\* line 156: `*ptr = 42` through the int pointer data + 1; ptr holds the
\* address of data + 1 modulo IntAlign, the frame one char per cell
StoreMisaligned(next) ==
    LET st == IF ptr % IntAlign # 0 THEN "misaligned" ELSE "ok"
        o  == Op("store", "data", 1, IntAlign, st)
    IN  \/ /\ st = "misaligned"
           /\ Fault(o)
        \/ /\ Do(o, next)
           /\ frame' = [a \in DOMAIN frame |->
                           IF a = 1 THEN Cell(42)
                           ELSE IF a \in 2 .. IntAlign THEN Cell(0)
                           ELSE frame[a]]
           /\ UNCHANGED <<out, ptr, heap>>

ubsan_misaligned_pointer ==
    \/ /\ At("ubsan_misaligned_pointer", 154)
       /\ Do(Op("store", "data", 0, Len(DataChars), "unwritten"), 155)
       /\ frame' = [a \in DOMAIN frame |->
                       IF a < Len(DataChars) THEN Cell(DataChars[a + 1])
                       ELSE frame[a]]
       /\ UNCHANGED <<out, ptr, heap>>
    \/ /\ At("ubsan_misaligned_pointer", 155)
       /\ \E base \in 0 .. IntAlign - 1 :
             /\ Do(Op("store", "ptr", 0, 1, "none"), 156)
             /\ ptr' = (base + 1) % IntAlign
       /\ UNCHANGED <<out, frame, heap>>
    \/ /\ At("ubsan_misaligned_pointer", 156)
       /\ StoreMisaligned(157)

\* variant: f is loaded as the float it is
LoadFloatPrint(next) == LoadPrint("f", 0, 1, 0, "Invalid cast: ", next)

\* line 164: the float f in cell 0 is loaded through an int pointer
LoadPunnedPrint(next) ==
    /\ Do(Op("load", "f", 0, 1, "punned"), next)
    /\ \E v \in { FloatBits } \cup Indeterminate :
          out' = Append(out, Shown("Invalid cast: ", v))
    /\ UNCHANGED <<frame, ptr, heap>>

ubsan_invalid_cast ==
    \/ /\ At("ubsan_invalid_cast", 161)
       /\ Assign("f", 0, FloatBits, 162)
    \/ /\ At("ubsan_invalid_cast", 162)
       /\ Do(Op("store", "ptr", 0, 1, "none"), 164)
       /\ UNCHANGED <<out, frame, ptr, heap>>
    \/ /\ At("ubsan_invalid_cast", 164)
       /\ LoadPunnedPrint(165)

----------------------------------------------------------------------------
(* The program *)

Next ==
    \/ Main172
    \/ Main173
    \/ MainCall
    \/ Return
    \/ Main201
    \/ Main202
    \/ asan_buffer_overflow
    \/ asan_use_after_free
    \/ asan_double_free
    \/ asan_memory_leak
    \/ tsan_data_race_example
    \/ \E t \in Tasks : tsan_data_race_increment(t)
    \/ tsan_vector_race_example
    \/ \E t \in Tasks : tsan_vector_race(t)
    \/ msan_uninitialized_read
    \/ msan_uninitialized_array
    \/ msan_uninitialized_struct
    \/ ubsan_signed_overflow
    \/ ubsan_null_pointer
    \/ ubsan_division_by_zero
    \/ ubsan_shift_out_of_bounds
    \/ ubsan_array_bounds
    \/ ubsan_misaligned_pointer
    \/ ubsan_invalid_cast

Spec == Init /\ [][Next]_vars

\* the process, once runnable, keeps being scheduled; at most one call
\* statement is enabled
InitOne == Init /\ Len(calls) <= 1

SpecLive == InitOne /\ [][Next]_vars /\ WF_vars(Next)

----------------------------------------------------------------------------
(* Vocabulary of the properties *)

Range(s) == { s[i] : i \in DOMAIN s }

Count(s, x) == Cardinality({ i \in DOMAIN s : s[i] = x })

Shipped == calls = <<>>

FixedOutput == <<Banner1, Banner2, Trailer>>

IsPrefix(s, t) == Len(s) <= Len(t) /\ SubSeq(t, 1, Len(s)) = s

\* the current routine has performed all the operations it will perform
Finished == cur # "none" /\ (rpc = LastLine(cur) \/ pc = "crashed")

\* the values printed so far with the given text
PrintedWith(text) ==
    { out[i][3] : i \in { j \in DOMAIN out : out[j][1] = text /\ out[j][2] } }

\* the value of the last print of the counter, 0 when there is none
LastCounterPrinted ==
    LET js == { j \in DOMAIN out : out[j][1] = "Counter value: " }
    IN  IF js = {} THEN 0
        ELSE out[CHOOSE j \in js : \A k \in js : k <= j][3]

----------------------------------------------------------------------------
(* C1: with no call statement enabled, main() invokes no routine, prints   *)
(* the banner and then the trailer and nothing else, returns 0, and         *)
(* always gets there.                                                       *)

C1_ShippedSafe ==
    Shipped =>
       /\ invoked = <<>> /\ cur = "none" /\ ops = <<>>
       /\ pc # "crashed"
       /\ IsPrefix(out, FixedOutput)
       /\ exitStatus \in {NoExit, 0}
       /\ (pc = "done" <=> exitStatus = 0)
       /\ (pc = "done" => out = FixedOutput)

\* C1: the conditions above hold in every state, and the shipped program
\* terminates with status 0 and exactly the fixed output
C1_ShippedConfiguration ==
    /\ [] C1_ShippedSafe
    /\ (Shipped => <>(pc = "done" /\ exitStatus = 0 /\ out = FixedOutput))

C1_Witness ==
    Shipped /\ pc = "done" /\ exitStatus = 0 /\ out = FixedOutput

----------------------------------------------------------------------------
(* C2: asan_double_free makes exactly one allocation and releases that      *)
(* same handle twice, with no other release and no allocation between the   *)
(* two releases.                                                            *)

C2_DoubleRelease ==
    cur = "asan_double_free" =>
       LET h == Len(heap)
       IN  /\ IsPrefix(ops, << Op("alloc", "heap", h, 1, "none"),
                               Op("free", "heap", h, 1, "live"),
                               Op("free", "heap", h, 1, "freed") >>)
           /\ (Finished => Len(ops) = 3)

C2_Witness ==
    /\ cur = "asan_double_free" /\ rpc = 34 /\ pc = "calls"
    /\ Len(ops) = 3 /\ ops[2].k = "free" /\ ops[3].k = "free"
    /\ ops[2].i = ops[1].i /\ ops[3].i = ops[1].i

----------------------------------------------------------------------------
RaceDemos == {"tsan_data_race_example", "tsan_vector_race_example"}

Spawned == { i \in DOMAIN ops : ops[i].k = "spawn" }

\* the caller is at or past the point where it observes the final state
Observing ==
    \/ cur = "tsan_data_race_example" /\ rpc \in {61, 62}
    \/ cur = "tsan_vector_race_example" /\ rpc = 78

TaskBound == IF cur = "tsan_data_race_example" THEN Iterations ELSE VecIterations

(* C3: each threading demonstration spawns exactly two tasks, which run     *)
(* against the shared state without ever waiting for one another, and the   *)
(* caller observes the final state (the load of shared_counter for the      *)
(* print, the return of the routine) only after both tasks have completed:  *)
(* no task has a step left at or after the observation.                     *)

C3_JoinBeforeObserve ==
    cur \in RaceDemos =>
       /\ Cardinality(Spawned) <= 2
       /\ \A i \in DOMAIN ops : ops[i].k \in {"spawn", "join", "load"}
       /\ \A t \in Tasks :
             /\ tpc[t] # "none" <=> \E i \in Spawned : ops[i].i = t
             /\ (pc = "calls" /\ tpc[t] \in {"read", "write"}) =>
                   ENABLED (tsan_data_race_increment(t) \/ tsan_vector_race(t))
       /\ Observing =>
             /\ Cardinality(Spawned) = 2
             /\ \A t \in Tasks : tpc[t] = "done" /\ ti[t] = TaskBound
             /\ \A t \in Tasks :
                   ~ ENABLED (tsan_data_race_increment(t) \/ tsan_vector_race(t))

C3_Witness ==
    /\ cur = "tsan_data_race_example" /\ rpc = 62 /\ pc = "calls"
    /\ Cardinality(Spawned) = 2
    /\ \A t \in Tasks : tpc[t] = "done"
    /\ stale
    /\ out[Len(out)] = Shown("Counter value: ", shared_counter)

----------------------------------------------------------------------------
EmptyVec == [size |-> 0, buf |-> <<>>]

(* C4 as stated: every execution of a race demonstration starts from a      *)
(* counter of 0 and an empty sequence, also when the demonstration is       *)
(* invoked more than once in the same process.                              *)

C4_ResetPerRun ==
    /\ At("tsan_data_race_example", 57) => shared_counter = 0
    /\ At("tsan_vector_race_example", 74) => shared_vec = EmptyVec

(* C4 amended: the shared state is initialized once, when the process       *)
(* starts, and no routine resets it.  The first execution of a race         *)
(* demonstration starts from a counter of 0 (an empty sequence); a later    *)
(* execution of the same demonstration starts from what the previous one    *)
(* left: the counter value it printed, a sequence that is not empty.        *)

C4_InitializedOnce ==
    /\ At("tsan_data_race_example", 57) =>
          /\ shared_counter = LastCounterPrinted
          /\ entry_counter = shared_counter
          /\ (Count(invoked, cur) = 1 => shared_counter = 0)
          /\ (Count(invoked, cur) > 1 => shared_counter > 0)
    /\ At("tsan_vector_race_example", 74) =>
          /\ (Count(invoked, cur) = 1 => shared_vec = EmptyVec)
          /\ (Count(invoked, cur) > 1 => shared_vec.size > 0)
    /\ cur \notin RaceDemos =>
          /\ shared_counter = LastCounterPrinted
          /\ ("tsan_vector_race_example" \notin Range(invoked)
                 => shared_vec = EmptyVec)

C4_Witness ==
    /\ At("tsan_data_race_example", 57)
    /\ Count(invoked, "tsan_data_race_example") = 2
    /\ shared_counter > 0
    /\ shared_counter = LastCounterPrinted

----------------------------------------------------------------------------
MsanRoutines ==
    {"msan_uninitialized_read", "msan_uninitialized_array",
     "msan_uninitialized_struct"}

Flagged(r) ==
    CASE r = "msan_uninitialized_read"   -> "x"
      [] r = "msan_uninitialized_array"  -> "arr"
      [] r = "msan_uninitialized_struct" -> "s.value"

(* C5: in each uninitialized-memory routine the flagged location (x,        *)
(* arr[0], s.value) is never written before it is read: every load the      *)
(* routine performs finds the location in its never-written state.          *)

C5_NoWriteBeforeRead ==
    cur \in MsanRoutines =>
       /\ ~ frame[0].w
       /\ \A i \in DOMAIN ops :
             /\ ops[i].k = "load"
             /\ ops[i].obj = Flagged(cur)
             /\ ops[i].i = 0
             /\ ops[i].st = "unwritten"
       /\ (Finished => ops # <<>>)

C5_Witness ==
    /\ cur = "msan_uninitialized_read" /\ rpc = 90 /\ pc = "calls"
    /\ Len(ops) = 2
    /\ \A i \in DOMAIN ops : ops[i].k = "load" /\ ops[i].st = "unwritten"

----------------------------------------------------------------------------
(* The defect classes, as the catalog describes them *)

Category(r) ==
    CASE Position(r) <= 4  -> "addressing"
      [] Position(r) <= 6  -> "threading"
      [] Position(r) <= 9  -> "uninitialized"
      [] OTHER             -> "undefined"

\* an access outside the bounds of its object, an access or a release
\* after the release of the allocation
AddressingOp(o) ==
    \/ o.k \in {"load", "store"} /\ o.st \in {"outside", "freed"}
    \/ o.k = "free" /\ o.st = "freed"

\* an allocation that no operation of the routine releases
Leaks(i) ==
    /\ ops[i].k = "alloc"
    /\ ~ \E j \in DOMAIN ops : ops[j].k = "free" /\ ops[j].i = ops[i].i

\* two tasks started on the same object, the second before the first is joined
Races(i) ==
    /\ ops[i].k = "spawn"
    /\ \E j \in DOMAIN ops :
          /\ j > i /\ ops[j].k = "spawn" /\ ops[j].obj = ops[i].obj
          /\ ~ \E m \in i + 1 .. j - 1 : ops[m].k = "join" /\ ops[m].i = ops[i].i

\* a load of a location of an object that was never written
UninitializedOp(o) == o.k = "load" /\ o.st = "unwritten"

\* signed overflow, an access through a null pointer, division by zero, an
\* oversized shift, an index >= the length of a fixed array, a misaligned
\* access, a type-punned load
UndefinedOp(o) ==
    \/ o.k = "inc" /\ o.st = "overflow"
    \/ o.k \in {"load", "store"} /\ o.st \in {"null", "outside", "misaligned"}
    \/ o.k = "div" /\ o.st = "zero"
    \/ o.k = "shl" /\ o.st = "oversized"
    \/ o.k = "load" /\ o.st = "punned"

\* the defect classes the operations of the current routine fall into
Classes ==
    { c \in {"addressing", "threading", "uninitialized", "undefined"} :
        \/ c = "addressing" /\ \E i \in DOMAIN ops :
                                  AddressingOp(ops[i]) \/ Leaks(i)
        \/ c = "threading" /\ \E i \in DOMAIN ops : Races(i)
        \/ c = "uninitialized" /\ \E i \in DOMAIN ops : UninitializedOp(ops[i])
        \/ c = "undefined" /\ \E i \in DOMAIN ops : UndefinedOp(ops[i]) }

----------------------------------------------------------------------------
IndexesOutOfBounds == {"asan_buffer_overflow", "ubsan_array_bounds"}

(* C6 as stated: the operations of every catalog routine fall into exactly  *)
(* one defect class, the category the routine is listed under.              *)

C6_OneClassPerRoutine == Finished => Classes = { Category(cur) }

(* C6 amended: fourteen of the sixteen routines exercise exactly the defect *)
(* class they are listed under, except that ubsan_misaligned_pointer        *)
(* exercises none when the stack layout happens to align data + 1 for int.  *)
(* asan_buffer_overflow and ubsan_array_bounds index a fixed-size array     *)
(* with an index >= its length; that one operation is both an               *)
(* out-of-bounds access (addressing) and an undefined-behavior trigger, so  *)
(* each of the two exercises both classes.                                  *)

C6_ClassesPerRoutine ==
    Finished =>
       /\ cur \in IndexesOutOfBounds => Classes = {"addressing", "undefined"}
       /\ cur = "ubsan_misaligned_pointer" =>
             Classes = IF ptr % IntAlign # 0 THEN {"undefined"} ELSE {}
       /\ cur \notin IndexesOutOfBounds \cup {"ubsan_misaligned_pointer"} =>
             Classes = { Category(cur) }

C6_Witness ==
    /\ cur = "asan_buffer_overflow" /\ rpc = 19 /\ pc = "calls"
    /\ Classes = {"addressing", "undefined"}
    /\ Len(ops) = 2

----------------------------------------------------------------------------
WrittenCells == { a \in DOMAIN frame : frame[a].w }

(* C7: asan_buffer_overflow stores to index 15 of an array of 10 elements,  *)
(* and the store lands 5 elements past the end of the array: the one cell   *)
(* of the frame it writes is the cell 5 past the array's bound, and no      *)
(* element of the array is written.                                         *)

C7_FivePastBound ==
    (cur = "asan_buffer_overflow" /\ ops # <<>>) =>
       /\ ops[1] = Op("store", "arr", 15, 10, "outside")
       /\ ops[1].i - ops[1].n = 5
       /\ (rpc >= 18 => WrittenCells = { 10 + 5 } /\ frame[15].v = 42)
       /\ (rpc < 18 => WrittenCells = {} /\ pc = "crashed")

C7_Witness ==
    /\ calls = << "asan_buffer_overflow" >>
    /\ At("asan_buffer_overflow", 18)
    /\ ops = << Op("store", "arr", 15, 10, "outside") >>
    /\ WrittenCells = {15}

----------------------------------------------------------------------------
(* C8: main() itself only ever returns 0.  If no enabled routine ends the   *)
(* process, main() prints the banner, runs the enabled routines in order,   *)
(* prints the trailer and returns 0.  If a routine ends the process, the    *)
(* trailer is not printed, main() does not return, and nothing happens      *)
(* after the crash.                                                         *)

C8_ExitStatus ==
    /\ exitStatus \in {NoExit, 0}
    /\ (exitStatus = 0 <=> pc = "done")
    /\ pc = "done" =>
          /\ invoked = calls /\ cur = "none"
          /\ Len(out) >= 3
          /\ SubSeq(out, 1, 2) = <<Banner1, Banner2>>
          /\ out[Len(out)] = Trailer
          /\ Count(out, Trailer) = 1
    /\ pc = "crashed" =>
          /\ cur # "none" /\ cur = calls[idx] /\ Len(invoked) = idx
          /\ Count(out, Trailer) = 0
          /\ exitStatus = NoExit
          /\ ~ ENABLED Next

C8_Witness ==
    /\ pc = "crashed" /\ idx = 2 /\ Len(calls) = 2
    /\ Len(invoked) = 2
    /\ Count(out, Trailer) = 0
    /\ exitStatus = NoExit

----------------------------------------------------------------------------
CounterObserved ==
    cur = "tsan_data_race_example" /\ rpc = 62 /\ entry_counter = 0

(* C9: the value tsan_data_race_example prints is not determined by the     *)
(* program.  Started from a counter of 0, an execution in which a task      *)
(* stores a count computed from a superseded load (a lost update) prints    *)
(* less than twice the iteration count; an execution without one prints     *)
(* exactly that.  Both kinds of execution are reachable.                    *)

C9_LostUpdate ==
    CounterObserved =>
       /\ out[Len(out)] = Shown("Counter value: ", shared_counter)
       /\ (stale => shared_counter < 2 * Iterations)
       /\ (~ stale => shared_counter = 2 * Iterations)

C9_Witness ==
    /\ CounterObserved
    /\ stale
    /\ shared_counter < 2 * Iterations
    /\ out[Len(out)] = Shown("Counter value: ", shared_counter)

\* the other kind of execution; reachable, hence not an invariant
C9_NeverExact == ~ (CounterObserved /\ shared_counter = 2 * Iterations)

----------------------------------------------------------------------------
(* C10: when tsan_data_race_example starts from a counter of 0, the counter *)
(* never exceeds twice the iteration count, and the value the caller        *)
(* observes after both joins is at least 2 and at most twice the iteration  *)
(* count.                                                                   *)

C10_CounterBounds ==
    (cur = "tsan_data_race_example" /\ entry_counter = 0) =>
       /\ shared_counter >= 0
       /\ shared_counter <= 2 * Iterations
       /\ rpc \in {61, 62} =>
             /\ 2 <= shared_counter
             /\ PrintedWith("Counter value: ") \subseteq 2 .. 2 * Iterations

C10_Witness ==
    /\ cur = "tsan_data_race_example" /\ rpc = 62 /\ entry_counter = 0
    /\ shared_counter = 2
    /\ 2 < Iterations
    /\ PrintedWith("Counter value: ") = {2}

============================================================================
